---- MODULE Spec2Model ----
(***************************************************************************)
(* fintek: a poller of the twelvedata quote API.  The model covers the     *)
(* rate budget (calculate_sleep_duration), the market clock                *)
(* (should_sleep), the ticker record on disk (read_tickers, check_tickers, *)
(* Tickers::init, dump_to_file), the price fetch (call_api and the         *)
(* STOCK_PRICE gauges) and the polling loop of main.                       *)
(*                                                                         *)
(* Strings are sequences of one-character strings, so that split, parse,   *)
(* JSON writing and JSON reading are computed character by character.      *)
(* All numbers the model reaches stay far below 2^31, so the u64 range     *)
(* checks of the code (parse overflow, arithmetic overflow) never trigger  *)
(* inside the bounds and are not modelled.                                 *)
(***************************************************************************)
EXTENDS Integers, Sequences, FiniteSets, TLC

\* ------------------------------------------------------------------ bounds
\* SpecDelay: arguments of calculate_sleep_duration range over 0..Max*
MaxNum == 3
MaxLimit == 3
MaxPeriod == 3
\* SpecMarket: countdown strings of at most MaxStrLen characters, at most
\* MaxSkipped records without a boolean in front of the deciding record
MaxStrLen == 5
MaxSkipped == 2
\* SpecRoundTrip: at most MaxTickers symbols of at most MaxSymLen characters
MaxTickers == 2
MaxSymLen == 1
\* Spec: the loop is followed for MaxCycles cycles, and the environment
\* rewrites or removes the record at most MaxMods times.  Time passes in the
\* sleeps only: a remote call and a file operation take no time.
MaxCycles == 2
MaxMods == 1
\* SpecRate: sets of at most MaxRateTickers symbols, polled for MaxRateCycles
\* cycles with the market open, which is more than RATE_LIMIT2 calls
MaxRateTickers == 3
MaxRateCycles == 801

\* ------------------------------------------------ program constants (main)
RATE_LIMIT1 == 8
PERIOD_IN_SECONDS1 == 60
RATE_LIMIT2 == 800
PERIOD_IN_SECONDS2 == 23400

\* ----------------------------------------------------------------- Option
None == [some |-> FALSE]
Some(x) == [some |-> TRUE, v |-> x]
\* Option<u64>::unwrap_or_default
unwrap_or_default(o) == IF o.some THEN o.v ELSE 0

Min(a, b) == IF a <= b THEN a ELSE b
Max(a, b) == IF a >= b THEN a ELSE b

\* u64::checked_sub: None on underflow
checked_sub(a, b) == IF a >= b THEN Some(a - b) ELSE None

\* u64::checked_div: None on a zero divisor
checked_div(a, b) == IF b = 0 THEN None ELSE Some(a \div b)

\* ------------------------------------------------------------- RateBudget
\* the variant that spaces the calls of tier A evenly over its period
calculate_sleep_duration_even(num_tickers, rate_limit1, period_in_seconds1, rate_limit2, period_in_seconds2) ==
    IF num_tickers = 0 THEN None
    ELSE Some(unwrap_or_default(checked_div(period_in_seconds1, rate_limit1)))

\* the variant that normalises tier B per ticker, as tier A does
calculate_sleep_duration_divB(num_tickers, rate_limit1, period_in_seconds1, rate_limit2, period_in_seconds2) ==
    IF num_tickers = 0 THEN None
    ELSE LET d1 == unwrap_or_default(checked_sub(period_in_seconds1,
                      unwrap_or_default(checked_div(rate_limit1, num_tickers))))
             d2 == unwrap_or_default(checked_sub(period_in_seconds2,
                      unwrap_or_default(checked_div(rate_limit2, num_tickers))))
         IN Some(Min(d1, d2))

calculate_sleep_duration(num_tickers, rate_limit1, period_in_seconds1, rate_limit2, period_in_seconds2) ==
    IF num_tickers = 0 THEN None
    ELSE LET calls_per_ticker1 ==
                 unwrap_or_default(checked_div(rate_limit1, num_tickers))
             sleep_duration1 ==
                 unwrap_or_default(checked_sub(period_in_seconds1, calls_per_ticker1))
             calls_per_ticker2 ==
                 unwrap_or_default(checked_sub(rate_limit2, num_tickers))
             sleep_duration2 ==
                 unwrap_or_default(checked_sub(period_in_seconds2, calls_per_ticker2))
         IN Some(Min(sleep_duration1, sleep_duration2))

\* ------------------------------------------------------------ str helpers
DigitChars == {"0", "1", "2", "3", "4", "5", "6", "7", "8", "9"}
DigitVal(c) ==
    CASE c = "0" -> 0 [] c = "1" -> 1 [] c = "2" -> 2 [] c = "3" -> 3
      [] c = "4" -> 4 [] c = "5" -> 5 [] c = "6" -> 6 [] c = "7" -> 7
      [] c = "8" -> 8 [] c = "9" -> 9

RECURSIVE ParseDigits(_, _, _)
ParseDigits(s, i, acc) ==
    IF i > Len(s) THEN Some(acc)
    ELSE IF s[i] \notin DigitChars THEN None
    ELSE ParseDigits(s, i + 1, acc * 10 + DigitVal(s[i]))

\* str::parse::<u64>: an optional "+", then at least one decimal digit
parse_u64(s) ==
    IF s = <<>> THEN None
    ELSE IF s[1] = "+" THEN (IF Len(s) = 1 THEN None ELSE ParseDigits(s, 2, 0))
    ELSE ParseDigits(s, 1, 0)

RECURSIVE SplitFrom(_, _, _, _)
SplitFrom(s, i, cur, acc) ==
    IF i > Len(s) THEN Append(acc, cur)
    ELSE IF s[i] = ":" THEN SplitFrom(s, i + 1, <<>>, Append(acc, cur))
    ELSE SplitFrom(s, i + 1, Append(cur, s[i]), acc)

\* str::split(':').collect::<Vec<_>>(): always at least one part
split_colon(s) == SplitFrom(s, 1, <<>>, <<>>)

\* ------------------------------------------------------------ MarketClock
\* serde_json::Value, as far as should_sleep looks into it
Null == [t |-> "null"]
Absent == [t |-> "absent"]
JBool(b) == [t |-> "bool", b |-> b]
JStr(s) == [t |-> "str", s |-> s]
JNum == [t |-> "num"]
JArray(a) == [t |-> "array", a |-> a]
JObject(imo, tto) == [t |-> "object", is_market_open |-> imo, time_to_open |-> tto]
Unparsable == [t |-> "unparsable"]
TransportError == [t |-> "transport_error"]
Body(json) == [t |-> "body", json |-> json]

\* Result<u64, Error> of should_sleep, or the panic that unwinds out of it
Ok(n) == [t |-> "Ok", v |-> n]
Err == [t |-> "Err", v |-> 0]
Panic == [t |-> "panic", v |-> 0]

\* serde_json::from_str(&data).unwrap_or_default()
from_str_value(json) == IF json.t = "unparsable" THEN Null ELSE json

\* Value's Index<&str>: Null unless an object that has the key
IndexKey(value, key) ==
    IF value.t # "object" \/ key \notin DOMAIN value THEN Null
    ELSE LET f == value[key] IN IF f.t = "absent" THEN Null ELSE f

as_bool(value) == IF value.t = "bool" THEN Some(value.b) ELSE None
as_str(value) == IF value.t = "str" THEN Some(value.s) ELSE None

ZeroCountdown == <<"0", ":", "0", ":", "0">>

\* lines 70-79: time_to_open[1] and time_to_open[2] are unchecked indexings
Countdown(object) ==
    LET s == as_str(IndexKey(object, "time_to_open"))
        time_to_open == split_colon(IF s.some THEN s.v ELSE ZeroCountdown)
    IN IF Len(time_to_open) < 3 THEN Panic
       ELSE LET hours == unwrap_or_default(parse_u64(time_to_open[1]))
                minutes == unwrap_or_default(parse_u64(time_to_open[2]))
                seconds == unwrap_or_default(parse_u64(time_to_open[3]))
            IN Ok(hours * 3600 + minutes * 60 + seconds)

\* the for loop of lines 63-82, from index i
RECURSIVE ScanRecords(_, _)
ScanRecords(array, i) ==
    IF i > Len(array) THEN Ok(0)
    ELSE LET object == array[i]
             is_market_open == as_bool(IndexKey(object, "is_market_open"))
         IN IF is_market_open.some
            THEN (IF is_market_open.v THEN Ok(0) ELSE Countdown(object))
            ELSE ScanRecords(array, i + 1)

\* the variant in which the last record carrying a boolean decides
RECURSIVE ScanRecordsLast(_, _, _)
ScanRecordsLast(array, i, acc) ==
    IF i > Len(array) THEN acc
    ELSE LET object == array[i]
             is_market_open == as_bool(IndexKey(object, "is_market_open"))
         IN IF is_market_open.some
            THEN ScanRecordsLast(array, i + 1,
                     IF is_market_open.v THEN Ok(0) ELSE Countdown(object))
            ELSE ScanRecordsLast(array, i + 1, acc)

should_sleep_last(resp) ==
    IF resp.t = "transport_error" THEN Err
    ELSE LET maybe_value == from_str_value(resp.json)
         IN IF maybe_value.t = "array" THEN ScanRecordsLast(maybe_value.a, 1, Ok(0))
            ELSE Ok(0)

should_sleep(resp) ==
    IF resp.t = "transport_error" THEN Err
    ELSE LET maybe_value == from_str_value(resp.json)
         IN IF maybe_value.t = "array" THEN ScanRecords(maybe_value.a, 1)
            ELSE Ok(0)

\* ------------------------------------------------------------ TickerStore
QUOTE == "\""
BACKSLASH == "\\"
\* a byte that is not valid UTF-8: fs::read_to_string fails on it
INVALID_BYTE == "0xFF"

\* the ticker record: the file "tickers"
NoFile == [exists |-> FALSE, mtime |-> 0, data |-> <<>>]
FileOf(mtime, data) == [exists |-> TRUE, mtime |-> mtime, data |-> data]

\* serde_json's string writer over the model's alphabet: " and \ are escaped
RECURSIVE EscapeFrom(_, _)
EscapeFrom(s, i) ==
    IF i > Len(s) THEN <<>>
    ELSE (IF s[i] \in {QUOTE, BACKSLASH} THEN <<BACKSLASH, s[i]>> ELSE <<s[i]>>)
         \o EscapeFrom(s, i + 1)

\* a string writer that copies the characters unescaped
write_str_raw(s) == <<QUOTE>> \o s \o <<QUOTE>>
write_str(s) == <<QUOTE>> \o EscapeFrom(s, 1) \o <<QUOTE>>

RECURSIVE WriteItems(_, _)
WriteItems(t, i) ==
    IF i > Len(t) THEN <<>>
    ELSE (IF i > 1 THEN <<",">> ELSE <<>>) \o write_str(t[i]) \o WriteItems(t, i + 1)

RecordHead == <<"{", QUOTE, "t", "i", "c", "k", "e", "r", "s", QUOTE, ":">>

\* serde_json::to_string(&Tickers): {"tickers":["A","M"]}
to_string(t) == RecordHead \o <<"[">> \o WriteItems(t, 1) \o <<"]", "}">>

ParseFail == [ok |-> FALSE]
Parsed(v, next) == [ok |-> TRUE, v |-> v, next |-> next]

\* a JSON string from the character after its opening quote; over the model's
\* alphabet the only escapes are \" and \\
RECURSIVE ParseStrBody(_, _, _)
ParseStrBody(s, i, acc) ==
    IF i > Len(s) THEN ParseFail
    ELSE IF s[i] = QUOTE THEN Parsed(acc, i + 1)
    ELSE IF s[i] = BACKSLASH
         THEN (IF i + 1 <= Len(s) /\ s[i + 1] \in {QUOTE, BACKSLASH}
               THEN ParseStrBody(s, i + 2, Append(acc, s[i + 1]))
               ELSE ParseFail)
    ELSE ParseStrBody(s, i + 1, Append(acc, s[i]))

ParseStr(s, i) ==
    IF i <= Len(s) /\ s[i] = QUOTE THEN ParseStrBody(s, i + 1, <<>>) ELSE ParseFail

\* the elements of Vec<String> after the first, up to the closing bracket
RECURSIVE ParseMoreItems(_, _, _)
ParseMoreItems(s, i, acc) ==
    IF i > Len(s) THEN ParseFail
    ELSE IF s[i] = "]" THEN Parsed(acc, i + 1)
    ELSE IF s[i] = ","
         THEN LET e == ParseStr(s, i + 1)
              IN IF e.ok THEN ParseMoreItems(s, e.next, Append(acc, e.v)) ELSE ParseFail
    ELSE ParseFail

ParseArray(s, i) ==
    IF i > Len(s) \/ s[i] # "[" THEN ParseFail
    ELSE IF i + 1 <= Len(s) /\ s[i + 1] = "]" THEN Parsed(<<>>, i + 2)
    ELSE LET e == ParseStr(s, i + 1)
         IN IF e.ok THEN ParseMoreItems(s, e.next, <<e.v>>) ELSE ParseFail

HasPrefix(s, p) == Len(s) >= Len(p) /\ SubSeq(s, 1, Len(p)) = p

\* serde_json::from_str::<Tickers>: an object whose one key "tickers" holds an
\* array of strings, and nothing after the closing brace
from_str_tickers(s) ==
    IF ~HasPrefix(s, RecordHead) THEN None
    ELSE LET a == ParseArray(s, Len(RecordHead) + 1)
         IN IF a.ok /\ a.next = Len(s) /\ s[a.next] = "}" THEN Some(a.v) ELSE None

\* Tickers::default / Result::unwrap_or_default
tickers_or_default(o) == IF o.some THEN o.v ELSE <<>>

\* fs::read_to_string: Err when the file is missing or not UTF-8
read_to_string(f) ==
    IF ~f.exists THEN None
    ELSE IF \E i \in 1..Len(f.data) : f.data[i] = INVALID_BYTE THEN None
    ELSE Some(f.data)

\* read_tickers: the unwrap of the read panics, the parse falls back to default
read_tickers(f) ==
    LET text == read_to_string(f)
    IN IF ~text.some THEN [t |-> "panic", v |-> <<>>]
       ELSE [t |-> "Ok", v |-> tickers_or_default(from_str_tickers(text.v))]

\* SystemTime::elapsed().map(as_secs).unwrap_or_default(): 0 for a time ahead
elapsed_secs(mtime, now) == IF now >= mtime THEN now - mtime ELSE 0

\* check_tickers; last is LAST_MODIFIED.  Gives the outcome, the returned
\* Option<Tickers> and the new LAST_MODIFIED
check_tickers(f, now, last) ==
    IF ~f.exists
    THEN [t |-> "panic", msg |-> "Failed to read metadata", ret |-> None, last |-> last]
    ELSE LET modified == elapsed_secs(f.mtime, now)
         IN IF last # modified
            THEN LET r == read_tickers(f)
                 IN IF r.t = "panic"
                    THEN [t |-> "panic", msg |-> "read_to_string unwrap",
                          ret |-> None, last |-> modified]
                    ELSE [t |-> "Ok", msg |-> "", ret |-> Some(r.v), last |-> modified]
            ELSE [t |-> "Ok", msg |-> "", ret |-> None, last |-> last]

\* ----------------------------------------------------------- PriceFetcher
\* the body of the quote API: {"price":"179.64000"}
JPrice(price) == [t |-> "object", price |-> price]

\* f64, as far as the model tells prices apart: a decimal is mant / 10^scale
\* with no trailing zero in the fraction
NaN == [t |-> "nan"]
Infinity(neg) == [t |-> "inf", neg |-> neg]
RECURSIVE Decimal(_, _, _)
Decimal(neg, mant, scale) ==
    IF scale > 0 /\ mant % 10 = 0 THEN Decimal(neg, mant \div 10, scale - 1)
    ELSE [t |-> "num", neg |-> neg, mant |-> mant, scale |-> scale]

Lower(c) ==
    CASE c = "N" -> "n" [] c = "A" -> "a" [] c = "I" -> "i" [] c = "F" -> "f"
      [] c = "T" -> "t" [] c = "Y" -> "y" [] OTHER -> c
LowerStr(s) == [i \in 1..Len(s) |-> Lower(s[i])]

\* the digits and at most one "." of a decimal, from index i; digits counts
\* the digits seen, scale the digits after the "."
RECURSIVE ParseDecimal(_, _, _, _, _, _)
ParseDecimal(s, i, mant, scale, dot, digits) ==
    IF i > Len(s) THEN (IF digits = 0 THEN None ELSE Some([mant |-> mant, scale |-> scale]))
    ELSE IF s[i] \in DigitChars
         THEN ParseDecimal(s, i + 1, mant * 10 + DigitVal(s[i]),
                           IF dot THEN scale + 1 ELSE scale, dot, digits + 1)
    ELSE IF s[i] = "." /\ ~dot THEN ParseDecimal(s, i + 1, mant, scale, TRUE, digits)
    ELSE None

\* str::parse::<f64>: an optional sign, then "nan", "inf" or "infinity" in
\* any case, or a decimal with at least one digit.  Exponents are outside
\* the model's alphabet
parse_f64(s) ==
    LET neg == s # <<>> /\ s[1] = "-"
        body == IF s # <<>> /\ s[1] \in {"+", "-"} THEN SubSeq(s, 2, Len(s)) ELSE s
        low == LowerStr(body)
    IN IF low = <<"n", "a", "n">> THEN Some(NaN)
       ELSE IF low \in {<<"i", "n", "f">>, <<"i", "n", "f", "i", "n", "i", "t", "y">>}
            THEN Some(Infinity(neg))
       ELSE LET d == ParseDecimal(body, 1, 0, 0, FALSE, 0)
            IN IF d.some THEN Some(Decimal(neg, d.v.mant, d.v.scale)) ELSE None

\* metrics::update_stock_price: STOCK_PRICE.with_label_values(&[symbol]).set(price)
update_stock_price(price, symbol, g) ==
    [x \in DOMAIN g \cup {symbol} |-> IF x = symbol THEN price ELSE g[x]]

\* call_api: the Result it returns and the gauges it leaves
call_api(symbol, resp, g) ==
    IF resp.t = "transport_error" THEN [t |-> "Err", gauge |-> g]
    ELSE LET v == from_str_value(resp.json)
             price == as_str(IndexKey(v, "price"))
         IN IF price.some
            THEN LET parsed == parse_f64(price.v)
                 IN IF parsed.some
                    THEN [t |-> "Ok", gauge |-> update_stock_price(parsed.v, symbol, g)]
                    ELSE [t |-> "Ok", gauge |-> g]
            ELSE [t |-> "Ok", gauge |-> g]

\* ------------------------------------------------------------------ state
VARIABLES pc, now, file, tickers, LAST_MODIFIED, night_time, sleep_duration,
          idx, cycles, fatal, market_failed, check_log, dirty, mods, arg, ret,
          gauge, init_log, calls, fetched, closed_until, slept, busy_wait, iter_dirty

\* pc: the position of main ("start", "init", "market", "market_sleep",
\*     "check", "fetch", "call_sleep", "panicked"), or of a single call
\* now: the clock, in seconds; file: the ticker record
\* tickers: main's active Tickers; LAST_MODIFIED: the static of check_tickers
\* night_time, sleep_duration, idx: locals of main's loop
\* cycles: completed loop iterations; fatal: where and why the process panicked
\* market_failed: the last market-state query failed in transport or parse
\* check_log: the number of check_tickers calls so far (up to 2), whether the
\*     record was modified between the last two, whether its modification
\*     time moved between them, whether it was modified during the for loop
\*     over the symbols, the modification time the last call saw, and what
\*     the last call returned
\* dirty: the record was modified after the last check_tickers call
\* mods: how often the environment has rewritten or removed the record
\* arg, ret: argument and result of a function under study
\* gauge: STOCK_PRICE, the gauge value of every symbol that has one
\* init_log: what fs::try_exists gave in Tickers::init, whether the record
\*     was present when Tickers::init began, and whether Tickers::init left
\*     the record as it was
\* calls: the times of the quote calls of the last PERIOD_IN_SECONDS2 seconds
\* fetched: the symbols call_api was called with in the current cycle
\* closed_until: the time the last market-state report gave as the opening
\* slept: a sleep of a positive duration has ended since the last
\*     market-state query; busy_wait: the last market-state query followed
\*     the one before it with no such sleep in between
\* iter_dirty: the record was modified during the for loop over the symbols
\*     since the last check_tickers call
histvars == <<gauge, init_log, calls, fetched, closed_until, slept, busy_wait, iter_dirty>>
loopvars == <<now, file, tickers, LAST_MODIFIED, night_time, sleep_duration,
              idx, cycles, fatal, market_failed, check_log, dirty, mods, histvars>>
vars == <<pc, now, file, tickers, LAST_MODIFIED, night_time, sleep_duration,
          idx, cycles, fatal, market_failed, check_log, dirty, mods, arg, ret,
          gauge, init_log, calls, fetched, closed_until, slept, busy_wait, iter_dirty>>

NoFatal == [at |-> "", msg |-> ""]
NoCheck == [n |-> 0, modified |-> FALSE, moved |-> FALSE, iter |-> FALSE, mtime |-> 0, ret |-> "-"]
NoRet == [t |-> "-", v |-> 0]
NoGauge == [symbol \in {} |-> 0]
NoInit == [probe |-> "-", present |-> FALSE, kept |-> FALSE]

\* the observations before main runs
HistIdle ==
    /\ gauge = NoGauge
    /\ init_log = NoInit
    /\ calls = <<>>
    /\ fetched = <<>>
    /\ closed_until = 0
    /\ slept = FALSE
    /\ busy_wait = FALSE
    /\ iter_dirty = FALSE

\* the state of main's variables before main runs
LoopIdle ==
    /\ now = 0
    /\ file = NoFile
    /\ tickers = <<>>
    /\ LAST_MODIFIED = 0
    /\ night_time = 0
    /\ sleep_duration = None
    /\ idx = 1
    /\ cycles = 0
    /\ fatal = NoFatal
    /\ market_failed = FALSE
    /\ check_log = NoCheck
    /\ dirty = FALSE
    /\ mods = 0
    /\ HistIdle

\* ----------------------------------------------------------------- inputs
RECURSIVE SeqsOfLen(_, _)
SeqsOfLen(A, n) ==
    IF n = 0 THEN {<<>>}
    ELSE {Append(s, c) : s \in SeqsOfLen(A, n - 1), c \in A}
SeqsUpTo(A, n) == UNION {SeqsOfLen(A, k) : k \in 0..n}

DelayArgs ==
    (0..MaxNum \cup {5}) \X (0..MaxLimit \cup {RATE_LIMIT1})
      \X (0..MaxPeriod \cup {PERIOD_IN_SECONDS1})
      \X (0..MaxLimit \cup {RATE_LIMIT2})
      \X (0..MaxPeriod \cup {PERIOD_IN_SECONDS2})

CountdownChars == {"2", ":", "x"}
Str_1_30_15 == <<"1", ":", "3", "0", ":", "1", "5">>
Str_0_0_2 == <<"0", ":", "0", ":", "2">>
CountdownSamples ==
    { Str_1_30_15, Str_0_0_2,
      <<"+", "4", ":", "-", "1", ":", "0", "7">>,
      <<"1", ":", "2", ":", "3", ":", "4">>,
      <<"1", ":", "3", "0">>,
      <<"9", "0">> }
CountdownStrs == SeqsUpTo(CountdownChars, MaxStrLen) \cup CountdownSamples

OpenRecord == JObject(JBool(TRUE), Absent)
ClosedRecord(s) == JObject(JBool(FALSE), JStr(s))
\* records that carry no boolean is_market_open
SkipRecords ==
    { JNum,
      JObject(Absent, JStr(Str_1_30_15)),
      JObject(JStr(<<"t", "r", "u", "e">>), JStr(Str_0_0_2)) }
DecidingRecords ==
    { OpenRecord, JObject(JBool(TRUE), JStr(Str_1_30_15)),
      JObject(JBool(FALSE), Absent), JObject(JBool(FALSE), JNum) }
      \cup {ClosedRecord(s) : s \in CountdownStrs}
TrailingRecords == {<<>>, <<OpenRecord>>, <<ClosedRecord(Str_0_0_2)>>}
MarketArrays ==
    { skipped \o decider \o trailing :
        skipped \in SeqsUpTo(SkipRecords, MaxSkipped),
        decider \in {<<>>} \cup {<<r>> : r \in DecidingRecords},
        trailing \in TrailingRecords }
MarketResponses ==
    { TransportError, Body(Unparsable), Body(Null), Body(JNum),
      Body(ClosedRecord(Str_1_30_15)) }
      \cup {Body(JArray(a)) : a \in MarketArrays}

SymChars == {"A", QUOTE, BACKSLASH}
Sym_AAPL == <<"A", "A", "P", "L">>
Sym_MSFT == <<"M", "S", "F", "T">>
TickerSamples ==
    { <<Sym_AAPL, Sym_MSFT>>, <<Sym_MSFT, Sym_AAPL>>,
      <<<<"A", QUOTE, "B">>, <<BACKSLASH, BACKSLASH, QUOTE>>, <<"]", "}">>, <<",">>>> }
TickerLists == SeqsUpTo(SeqsUpTo(SymChars, MaxSymLen), MaxTickers) \cup TickerSamples

Prefixes(s) == {SubSeq(s, 1, k) : k \in 0..Len(s)}
LoadTexts ==
    UNION {Prefixes(to_string(t)) : t \in TickerLists} \cup {<<INVALID_BYTE>>, <<"A", INVALID_BYTE>>}
LoadFiles == {NoFile} \cup {FileOf(0, d) : d \in LoadTexts}

\* ------------------------------------------------------ SpecDelay (4.1)
InitDelay ==
    /\ pc = "call"
    /\ arg \in DelayArgs
    /\ ret = None
    /\ LoopIdle

CallDelay ==
    /\ pc = "call"
    /\ pc' = "returned"
    /\ ret' = calculate_sleep_duration(arg[1], arg[2], arg[3], arg[4], arg[5])
    /\ UNCHANGED <<loopvars, arg>>

NextDelay == CallDelay
SpecDelay == InitDelay /\ [][NextDelay]_vars

\* ----------------------------------------------------- SpecMarket (4.2)
InitMarket ==
    /\ pc = "call"
    /\ arg \in MarketResponses
    /\ ret = NoRet
    /\ LoopIdle

CallShouldSleep ==
    /\ pc = "call"
    /\ pc' = "returned"
    /\ ret' = should_sleep(arg)
    /\ UNCHANGED <<loopvars, arg>>

NextMarket == CallShouldSleep
SpecMarket == InitMarket /\ [][NextMarket]_vars

\* -------------------------------------------------- Tickers: init, dump
\* Tickers::dump_to_file at time now; write_ok: fs::write succeeds
dump_to_file(t, f, at, write_ok) ==
    IF write_ok THEN [t |-> "Ok", file |-> FileOf(at, to_string(t))]
    ELSE [t |-> "panic", file |-> f]

\* create_tickers: Tickers::default().dump_to_file()
create_tickers(f, at, write_ok) == dump_to_file(<<>>, f, at, write_ok)

\* the variant that creates the record only when try_exists says it is absent
Tickers_init_strict(f, at, probe_ok, write_ok) ==
    IF probe_ok /\ ~f.exists
    THEN LET c == create_tickers(f, at, write_ok)
         IN IF c.t = "panic"
            THEN [t |-> "panic", msg |-> "Failed to write to file", file |-> c.file, v |-> <<>>]
            ELSE LET r == read_tickers(c.file)
                 IN [t |-> r.t, msg |-> "read_to_string unwrap", file |-> c.file, v |-> r.v]
    ELSE LET r == read_tickers(f)
         IN [t |-> r.t, msg |-> "read_to_string unwrap", file |-> f, v |-> r.v]

\* Tickers::init; probe_ok: fs::try_exists gives Ok
Tickers_init(f, at, probe_ok, write_ok) ==
    IF ~probe_ok \/ ~f.exists
    THEN LET c == create_tickers(f, at, write_ok)
         IN IF c.t = "panic"
            THEN [t |-> "panic", msg |-> "Failed to write to file", file |-> c.file, v |-> <<>>]
            ELSE LET r == read_tickers(c.file)
                 IN [t |-> r.t, msg |-> "read_to_string unwrap", file |-> c.file, v |-> r.v]
    ELSE LET r == read_tickers(f)
         IN [t |-> r.t, msg |-> "read_to_string unwrap", file |-> f, v |-> r.v]

\* a default that waits out one tier-A period after a failed query
result_unwrap_or_period(r) == IF r.t = "Ok" THEN r.v ELSE PERIOD_IN_SECONDS1
\* Result<u64, Error>::unwrap_or_default
result_unwrap_or_default(r) == IF r.t = "Ok" THEN r.v ELSE 0

\* ------------------------------------------------------ Spec: main's loop
Sym_A == <<"A">>
Sym_M == <<"M">>
LoopTickerLists == {<<>>, <<Sym_A>>, <<Sym_A, Sym_A>>, <<<<>>, Sym_M>>}
TruncatedRecord == SubSeq(to_string(<<Sym_A>>), 1, Len(to_string(<<Sym_A>>)) - 2)
LoopFileTexts ==
    {to_string(t) : t \in LoopTickerLists} \cup {TruncatedRecord, <<INVALID_BYTE>>}
LoopResponses ==
    { TransportError, Body(Unparsable),
      Body(JArray(<<OpenRecord>>)),
      Body(JArray(<<ClosedRecord(Str_0_0_2)>>)),
      Body(JArray(<<ClosedRecord(<<"9", "0">>)>>)) }
LoopPcs == {"market", "market_sleep", "check", "fetch", "call_sleep"}
Price_2_5 == <<"2", ".", "5">>
LoopQuotes ==
    { TransportError, Body(Unparsable), Body(JPrice(Absent)),
      Body(JPrice(JStr(<<"x">>))), Body(JPrice(JStr(Price_2_5))) }

Init ==
    /\ pc = "start"
    /\ now = 0
    /\ file \in {NoFile} \cup {FileOf(0, d) : d \in LoopFileTexts}
    /\ tickers = <<>>
    /\ LAST_MODIFIED = 0
    /\ night_time = 0
    /\ sleep_duration = None
    /\ idx = 1
    /\ cycles = 0
    /\ fatal = NoFatal
    /\ market_failed = FALSE
    /\ check_log = NoCheck
    /\ dirty = FALSE
    /\ mods = 0
    /\ HistIdle
    /\ arg = <<>>
    /\ ret = NoRet

\* main.rs:31: env::var("API_KEY").expect(..)
Start ==
    /\ pc = "start"
    /\ \E api_key_set \in BOOLEAN :
         IF api_key_set
         THEN pc' = "init" /\ UNCHANGED fatal
         ELSE pc' = "panicked" /\ fatal' = [at |-> pc, msg |-> "API_KEY must be set"]
    /\ UNCHANGED <<now, file, tickers, LAST_MODIFIED, night_time, sleep_duration,
                   idx, cycles, market_failed, check_log, dirty, mods, arg, ret, histvars>>

\* main.rs:33: Tickers::init().await
TickersInit ==
    /\ pc = "init"
    /\ \E probe_ok \in BOOLEAN, write_ok \in BOOLEAN :
         LET r == Tickers_init(file, now, probe_ok, write_ok)
         IN /\ file' = r.file
            /\ init_log' = [probe |-> IF probe_ok THEN "Ok" ELSE "Err",
                            present |-> file.exists, kept |-> r.file = file]
            /\ IF r.t = "panic"
               THEN /\ pc' = "panicked"
                    /\ fatal' = [at |-> pc, msg |-> r.msg]
                    /\ UNCHANGED tickers
               ELSE /\ pc' = "market"
                    /\ tickers' = r.v
                    /\ UNCHANGED fatal
    /\ UNCHANGED <<now, LAST_MODIFIED, night_time, sleep_duration, idx, cycles,
                   market_failed, check_log, dirty, mods, arg, ret,
                   gauge, calls, fetched, closed_until, slept, busy_wait, iter_dirty>>

\* the call times of the last PERIOD_IN_SECONDS2 seconds, after a call at time at
Logged(log, at) ==
    LET all == Append(log, at)
    IN SelectSeq(all, LAMBDA t : t + PERIOD_IN_SECONDS2 > at)

\* main.rs:36-38: should_sleep(..).await.unwrap_or_default(), for a response
\* of responses, in a run of at most max_cycles cycles
MarketQueryOn(responses, max_cycles) ==
    /\ pc = "market"
    /\ cycles < max_cycles
    /\ \E resp \in responses :
         LET r == should_sleep(resp)
         IN /\ market_failed' = (resp.t = "transport_error" \/ resp.json.t = "unparsable")
            /\ IF r.t = "panic"
               THEN /\ pc' = "panicked"
                    /\ fatal' = [at |-> pc, msg |-> "index out of bounds"]
                    /\ UNCHANGED <<night_time, closed_until>>
               ELSE /\ pc' = "market_sleep"
                    /\ night_time' = result_unwrap_or_default(r)
                    /\ closed_until' = now + result_unwrap_or_default(r)
                    /\ UNCHANGED fatal
    /\ busy_wait' = (cycles > 0 /\ ~slept)
    /\ slept' = FALSE
    /\ UNCHANGED <<now, file, tickers, LAST_MODIFIED, sleep_duration, idx, cycles,
                   check_log, dirty, mods, arg, ret,
                   gauge, init_log, calls, fetched, iter_dirty>>

MarketQuery == MarketQueryOn(LoopResponses, MaxCycles)

\* a market sleep that takes no time
MarketSleep_skip ==
    /\ pc = "market_sleep"
    /\ now' = now
    /\ slept' = FALSE
    /\ pc' = "check"
    /\ UNCHANGED <<file, tickers, LAST_MODIFIED, night_time, sleep_duration, idx,
                   cycles, fatal, market_failed, check_log, dirty, mods, arg, ret,
                   gauge, init_log, calls, fetched, closed_until, busy_wait, iter_dirty>>

\* a market sleep after which the market clock is queried again
MarketSleep_requery ==
    /\ pc = "market_sleep"
    /\ now' = now + night_time
    /\ slept' = (night_time > 0)
    /\ pc' = IF night_time > 0 THEN "market" ELSE "check"
    /\ UNCHANGED <<file, tickers, LAST_MODIFIED, night_time, sleep_duration, idx,
                   cycles, fatal, market_failed, check_log, dirty, mods, arg, ret,
                   gauge, init_log, calls, fetched, closed_until, busy_wait, iter_dirty>>

\* main.rs:40: sleep(Duration::from_secs(night_time))
MarketSleep ==
    /\ pc = "market_sleep"
    /\ now' = now + night_time
    /\ slept' = (night_time > 0)
    /\ pc' = "check"
    /\ UNCHANGED <<file, tickers, LAST_MODIFIED, night_time, sleep_duration, idx,
                   cycles, fatal, market_failed, check_log, dirty, mods, arg, ret,
                   gauge, init_log, calls, fetched, closed_until, busy_wait, iter_dirty>>

\* main.rs:42-48: check_tickers, the swap of the active set, the delay; an
\* empty set makes the for loop of line 50 fall through to the next cycle
CheckTickers ==
    /\ pc = "check"
    /\ LET c == check_tickers(file, now, LAST_MODIFIED)
           new == IF c.ret.some THEN c.ret.v ELSE tickers
       IN /\ LAST_MODIFIED' = c.last
          /\ check_log' = [n |-> Min(check_log.n + 1, 2), modified |-> dirty,
                           moved |-> file.exists /\ file.mtime # check_log.mtime,
                           iter |-> iter_dirty,
                           mtime |-> file.mtime,
                           ret |-> IF c.t = "panic" THEN "panic"
                                   ELSE IF c.ret.some THEN "Some" ELSE "None"]
          /\ dirty' = FALSE
          /\ iter_dirty' = FALSE
          /\ IF c.t = "panic"
             THEN /\ pc' = "panicked"
                  /\ fatal' = [at |-> pc, msg |-> c.msg]
                  /\ UNCHANGED <<tickers, sleep_duration, idx, cycles, fetched>>
             ELSE /\ tickers' = new
                  /\ sleep_duration' = calculate_sleep_duration(Len(new),
                         RATE_LIMIT1, PERIOD_IN_SECONDS1, RATE_LIMIT2, PERIOD_IN_SECONDS2)
                  /\ idx' = 1
                  /\ fetched' = <<>>
                  /\ pc' = IF Len(new) = 0 THEN "market" ELSE "fetch"
                  /\ cycles' = IF Len(new) = 0 THEN cycles + 1 ELSE cycles
                  /\ UNCHANGED fatal
    /\ UNCHANGED <<now, file, night_time, market_failed, mods, arg, ret,
                   gauge, init_log, calls, closed_until, slept, busy_wait>>

\* main.rs:51-54: call_api(ticker, ..) for a response of quotes; its Err is
\* logged and dropped
CallApiOn(quotes) ==
    /\ pc = "fetch"
    /\ \E resp \in quotes : gauge' = call_api(tickers[idx], resp, gauge).gauge
    /\ calls' = Logged(calls, now)
    /\ fetched' = Append(fetched, tickers[idx])
    /\ pc' = "call_sleep"
    /\ UNCHANGED <<now, file, tickers, LAST_MODIFIED, night_time, sleep_duration, idx,
                   cycles, fatal, market_failed, check_log, dirty, mods, arg, ret,
                   init_log, closed_until, slept, busy_wait, iter_dirty>>

CallApi == CallApiOn(LoopQuotes)

\* main.rs:55: sleep(Duration::from_secs(sleep_duration)), then the next
\* symbol or, after the last one, the next cycle.  The body of the for loop
\* runs for a non-empty set only, where sleep_duration is Some
CallSleep ==
    /\ pc = "call_sleep"
    /\ now' = now + sleep_duration.v
    /\ slept' = (slept \/ sleep_duration.v > 0)
    /\ idx' = idx + 1
    /\ pc' = IF idx + 1 > Len(tickers) THEN "market" ELSE "fetch"
    /\ cycles' = IF idx + 1 > Len(tickers) THEN cycles + 1 ELSE cycles
    /\ UNCHANGED <<file, tickers, LAST_MODIFIED, night_time, sleep_duration,
                   fatal, market_failed, check_log, dirty, mods, arg, ret,
                   gauge, init_log, calls, fetched, closed_until, busy_wait, iter_dirty>>

\* the moments at which the record can be modified before main's next step:
\* now, or any time up to the end of the sleep main is in (its last second
\* stands for them)
ModTimes ==
    {now} \cup (IF pc = "call_sleep" THEN {now + sleep_duration.v} ELSE {})
          \cup (IF pc = "market_sleep" THEN {now + night_time} ELSE {})

\* the environment rewrites the ticker record while the loop runs
ModifyRecord ==
    /\ pc \in LoopPcs
    /\ mods < MaxMods
    /\ mods' = mods + 1
    /\ \E d \in LoopFileTexts, at \in ModTimes :
         /\ file.exists => at >= file.mtime
         /\ file' = FileOf(at, d)
    /\ dirty' = TRUE
    /\ iter_dirty' = (iter_dirty \/ pc \in {"fetch", "call_sleep"})
    /\ UNCHANGED <<pc, now, tickers, LAST_MODIFIED, night_time, sleep_duration,
                   idx, cycles, fatal, market_failed, check_log, arg, ret,
                   gauge, init_log, calls, fetched, closed_until, slept, busy_wait>>

\* the environment removes the ticker record while the loop runs
RemoveRecord ==
    /\ pc \in LoopPcs
    /\ mods < MaxMods
    /\ mods' = mods + 1
    /\ file.exists
    /\ file' = NoFile
    /\ dirty' = TRUE
    /\ iter_dirty' = (iter_dirty \/ pc \in {"fetch", "call_sleep"})
    /\ UNCHANGED <<pc, now, tickers, LAST_MODIFIED, night_time, sleep_duration,
                   idx, cycles, fatal, market_failed, check_log, arg, ret,
                   gauge, init_log, calls, fetched, closed_until, slept, busy_wait>>

Next ==
    \/ Start
    \/ TickersInit
    \/ MarketQuery
    \/ MarketSleep
    \/ CheckTickers
    \/ CallApi
    \/ CallSleep
    \/ ModifyRecord
    \/ RemoveRecord

Spec == Init /\ [][Next]_vars

\* ------------------------------------ SpecRate: the loop on an open market
\* n symbols: "A", "AA", ...
RateTickers(n) == [i \in 1..n |-> [k \in 1..i |-> "A"]]
RateResponses == {Body(JArray(<<OpenRecord>>))}
RateQuotes == {Body(JPrice(JStr(Price_2_5)))}

\* main after Tickers::init has loaded a record of n symbols
InitRate ==
    /\ pc = "market"
    /\ now = 0
    /\ \E n \in 0..MaxRateTickers :
         /\ tickers = RateTickers(n)
         /\ file = FileOf(0, to_string(RateTickers(n)))
    /\ LAST_MODIFIED = 0
    /\ night_time = 0
    /\ sleep_duration = None
    /\ idx = 1
    /\ cycles = 0
    /\ fatal = NoFatal
    /\ market_failed = FALSE
    /\ check_log = NoCheck
    /\ dirty = FALSE
    /\ mods = 0
    /\ arg = <<>>
    /\ ret = NoRet
    /\ gauge = NoGauge
    /\ init_log = [probe |-> "Ok", present |-> TRUE, kept |-> TRUE]
    /\ calls = <<>>
    /\ fetched = <<>>
    /\ closed_until = 0
    /\ slept = FALSE
    /\ busy_wait = FALSE
    /\ iter_dirty = FALSE

RateMarketQuery == MarketQueryOn(RateResponses, MaxRateCycles)
RateCallApi == CallApiOn(RateQuotes)

NextRate ==
    \/ RateMarketQuery
    \/ MarketSleep
    \/ CheckTickers
    \/ RateCallApi
    \/ CallSleep

SpecRate == InitRate /\ [][NextRate]_vars

\* ------------------------------------------- SpecFetch (4.4, one fetch)
Price_179_64000 == <<"1", "7", "9", ".", "6", "4", "0", "0", "0">>
PriceStrs ==
    { Price_2_5, Price_179_64000, <<"-", "1">>, <<"+", "0", "7">>, <<".", "5">>, <<"5", ".">>,
      <<>>, <<"x">>, <<".">>, <<"-">>, <<"1", ".", "2", ".", "3">>, <<"2", ",", "5">>,
      <<"N", "a", "N">>, <<"n", "a", "n">>, <<"i", "n", "f">>,
      <<"-", "I", "n", "f", "i", "n", "i", "t", "y">> }
QuoteResponses ==
    { TransportError, Body(Unparsable), Body(Null), Body(JArray(<<>>)),
      Body(JObject(Absent, Absent)), Body(JPrice(Absent)), Body(JPrice(JNum)) }
      \cup {Body(JPrice(JStr(p))) : p \in PriceStrs}
FetchSymbols == {<<>>, Sym_A, Sym_M}
Gauges ==
    { NoGauge,
      update_stock_price(Decimal(FALSE, 1, 0), Sym_A, NoGauge),
      update_stock_price(NaN, Sym_M,
          update_stock_price(Decimal(FALSE, 25, 1), Sym_A, NoGauge)) }
NoFetch == [t |-> "-"]

InitFetch ==
    /\ pc = "call"
    /\ arg \in [symbol : FetchSymbols, resp : QuoteResponses, gauge : Gauges]
    /\ ret = NoFetch
    /\ now = 0
    /\ file = NoFile
    /\ tickers = <<>>
    /\ LAST_MODIFIED = 0
    /\ night_time = 0
    /\ sleep_duration = None
    /\ idx = 1
    /\ cycles = 0
    /\ fatal = NoFatal
    /\ market_failed = FALSE
    /\ check_log = NoCheck
    /\ dirty = FALSE
    /\ mods = 0
    /\ gauge = arg.gauge
    /\ init_log = NoInit
    /\ calls = <<>>
    /\ fetched = <<>>
    /\ closed_until = 0
    /\ slept = FALSE
    /\ busy_wait = FALSE
    /\ iter_dirty = FALSE

\* call_api(arg.symbol, ..) with the STOCK_PRICE gauges of arg.gauge
CallFetch ==
    /\ pc = "call"
    /\ pc' = "returned"
    /\ LET r == call_api(arg.symbol, arg.resp, gauge)
       IN ret' = [t |-> r.t] /\ gauge' = r.gauge
    /\ UNCHANGED <<now, file, tickers, LAST_MODIFIED, night_time, sleep_duration,
                   idx, cycles, fatal, market_failed, check_log, dirty, mods, arg,
                   init_log, calls, fetched, closed_until, slept, busy_wait, iter_dirty>>

NextFetch == CallFetch
SpecFetch == InitFetch /\ [][NextFetch]_vars

\* --------------------------------------------------- SpecLoad (4.3, load)
NoLoad == [t |-> "-", v |-> <<>>]

InitLoad ==
    /\ pc = "call"
    /\ arg \in LoadFiles
    /\ ret = NoLoad
    /\ LoopIdle

CallReadTickers ==
    /\ pc = "call"
    /\ pc' = "returned"
    /\ ret' = read_tickers(arg)
    /\ UNCHANGED <<loopvars, arg>>

NextLoad == CallReadTickers
SpecLoad == InitLoad /\ [][NextLoad]_vars

\* ------------------------------------------ SpecRoundTrip (4.3, persist)
InitRoundTrip ==
    /\ pc = "dump"
    /\ arg \in TickerLists
    /\ ret = NoLoad
    /\ now = 0
    /\ file \in {NoFile, FileOf(0, to_string(<<Sym_A>>))}
    /\ tickers = <<>>
    /\ LAST_MODIFIED = 0
    /\ night_time = 0
    /\ sleep_duration = None
    /\ idx = 1
    /\ cycles = 0
    /\ fatal = NoFatal
    /\ market_failed = FALSE
    /\ check_log = NoCheck
    /\ dirty = FALSE
    /\ mods = 0
    /\ HistIdle

\* Tickers::new(arg).dump_to_file().await
CallDump ==
    /\ pc = "dump"
    /\ \E write_ok \in BOOLEAN :
         LET d == dump_to_file(arg, file, now, write_ok)
         IN /\ file' = d.file
            /\ IF d.t = "panic"
               THEN pc' = "panicked" /\ fatal' = [at |-> pc, msg |-> "Failed to write to file"]
               ELSE pc' = "read" /\ UNCHANGED fatal
    /\ UNCHANGED <<now, tickers, LAST_MODIFIED, night_time, sleep_duration, idx,
                   cycles, market_failed, check_log, dirty, mods, arg, ret, histvars>>

\* read_tickers().await
CallRead ==
    /\ pc = "read"
    /\ pc' = "returned"
    /\ ret' = read_tickers(file)
    /\ UNCHANGED <<loopvars, arg>>

NextRoundTrip == CallDump \/ CallRead
SpecRoundTrip == InitRoundTrip /\ [][NextRoundTrip]_vars

\* ------------------------------ SpecPersist (4.3, persist and a reader)
\* fs::write is File::create, which truncates the file in place, followed by
\* write_all, which copies the bytes in one or more write calls.  A reader
\* that opens the same path in between reads what is there at that moment.
PersistSets == LoopTickerLists
NoSeen == [t |-> "-", v |-> <<>>, text |-> <<>>]

\* File::create of fs::write: the record is emptied in place
fs_write_create(f, at) == FileOf(at, <<>>)
\* one write call of write_all: the next k characters of text
fs_write_some(f, at, text, k) ==
    FileOf(at, f.data \o SubSeq(text, Len(f.data) + 1, Len(f.data) + k))

InitPersist ==
    /\ pc = "dump"
    /\ arg \in PersistSets
    /\ ret = NoSeen
    /\ now = 0
    /\ tickers \in PersistSets
    /\ file = FileOf(0, to_string(tickers))
    /\ LAST_MODIFIED = 0
    /\ night_time = 0
    /\ sleep_duration = None
    /\ idx = 1
    /\ cycles = 0
    /\ fatal = NoFatal
    /\ market_failed = FALSE
    /\ check_log = NoCheck
    /\ dirty = FALSE
    /\ mods = 0
    /\ HistIdle

\* Tickers::new(arg).dump_to_file(): serde_json::to_string, then the
\* File::create of fs::write
DumpCreate ==
    /\ pc = "dump"
    /\ \E create_ok \in BOOLEAN :
         IF create_ok
         THEN /\ file' = fs_write_create(file, now)
              /\ pc' = "writing"
              /\ UNCHANGED fatal
         ELSE /\ pc' = "panicked"
              /\ fatal' = [at |-> pc, msg |-> "Failed to write to file"]
              /\ UNCHANGED file
    /\ UNCHANGED <<now, tickers, LAST_MODIFIED, night_time, sleep_duration, idx,
                   cycles, market_failed, check_log, dirty, mods, arg, ret, histvars>>

\* the write_all of fs::write: one write call, which may fail
DumpWrite ==
    /\ pc = "writing"
    /\ LET text == to_string(arg)
           left == Len(text) - Len(file.data)
       IN \/ /\ \E k \in 1..left :
                  /\ file' = fs_write_some(file, now, text, k)
                  /\ pc' = IF k = left THEN "written" ELSE "writing"
             /\ UNCHANGED fatal
          \/ /\ pc' = "panicked"
             /\ fatal' = [at |-> pc, msg |-> "Failed to write to file"]
             /\ UNCHANGED file
    /\ UNCHANGED <<now, tickers, LAST_MODIFIED, night_time, sleep_duration, idx,
                   cycles, market_failed, check_log, dirty, mods, arg, ret, histvars>>

\* another thread or process calls read_tickers() while dump_to_file runs
ConcurrentLoad ==
    /\ pc \in {"dump", "writing", "written"}
    /\ ret = NoSeen
    /\ LET r == read_tickers(file)
       IN ret' = [t |-> r.t, v |-> r.v, text |-> file.data]
    /\ UNCHANGED <<pc, loopvars, arg>>

NextPersist == DumpCreate \/ DumpWrite \/ ConcurrentLoad
SpecPersist == InitPersist /\ [][NextPersist]_vars

\* ================================================================= claims

TierA(n, limit_a, period_a) == Max(0, period_a - (limit_a \div n))
TierB(n, limit_b, period_b) == Max(0, period_b - Max(0, limit_b - n))
\* C1 (SpecDelay): calculate_sleep_duration returns None exactly when
\* num_tickers = 0; otherwise it returns Some(min(tierA, tierB)) with
\* tierA = max(0, period_a - floor(limit_a / num_tickers)) and
\* tierB = max(0, period_b - max(0, limit_b - num_tickers)); more tickers than
\* both limits gives min(period_a, period_b); (5, 8, 60, 800, 23400) gives 59.
C1_DelayIsStricterTier ==
    pc = "returned" =>
        LET n == arg[1]
        IN /\ (~ret.some) <=> (n = 0)
           /\ n >= 1 => ret = Some(Min(TierA(n, arg[2], arg[3]), TierB(n, arg[4], arg[5])))
           /\ (n >= 1 /\ n > arg[2] /\ n > arg[4]) => ret = Some(Min(arg[3], arg[5]))
           /\ arg = <<5, 8, 60, 800, 23400>> => ret = Some(59)
C1_Witness ==
    pc = "returned" /\ arg = <<5, 8, 60, 800, 23400>> /\ ret = Some(59)

\* C2 (Spec): of two consecutive check_tickers calls with no modification of
\* the record in between, the second returns no set.
C2_UnmodifiedRecordIsNotReloaded ==
    (check_log.n = 2 /\ ~check_log.modified) => check_log.ret # "Some"

\* C3 (Spec): when the record is modified between two consecutive
\* check_tickers calls, the later call (if it returns) returns the loaded
\* set; stated for the modifications that moved the record's modification
\* time to another second.
C3_ModificationIsDetected ==
    (check_log.n = 2 /\ check_log.modified /\ check_log.moved /\ check_log.ret # "panic")
        => check_log.ret = "Some"

\* C4 (Spec): no failure in the polling loop stops the process; stated for
\* the claim's own case: a record that is missing or unreadable when
\* check_tickers runs does not stop the loop.
C4_CheckNeverStopsTheLoop ==
    pc = "panicked" => fatal.at # "check"

\* C5 (SpecLoad): loading the record never fails: read_tickers returns a set,
\* and the empty set for an unreadable or a malformed record.
C5_LoadNeverFails ==
    pc = "returned" =>
        /\ ret.t = "Ok"
        /\ (~read_to_string(arg).some \/ ~from_str_tickers(arg.data).some) => ret.v = <<>>

NoDuplicates(t) == \A i, j \in 1..Len(t) : t[i] = t[j] => i = j
NoEmptySymbol(t) == \A i \in 1..Len(t) : t[i] # <<>>
\* C6 (Spec): the active set never holds a duplicate or an empty symbol.
C6_ActiveSetIsClean ==
    pc \in LoopPcs => NoDuplicates(tickers) /\ NoEmptySymbol(tickers)

HasBool(r) == r.t = "object" /\ r.is_market_open.t = "bool"
Deciding(a) == {i \in 1..Len(a) : HasBool(a[i]) /\ \A j \in 1..(i - 1) : ~HasBool(a[j])}
IsNumeral(s) == s # <<>> /\ \A i \in 1..Len(s) : s[i] \in DigitChars
RECURSIVE NumeralValue(_)
NumeralValue(s) ==
    IF s = <<>> THEN 0
    ELSE 10 * NumeralValue(SubSeq(s, 1, Len(s) - 1)) + DigitVal(s[Len(s)])
\* the sets of positions of the two colons of an H:M:S string
ColonPairs(s) ==
    {p \in (1..Len(s)) \X (1..Len(s)) :
        /\ p[1] < p[2]
        /\ \A i \in 1..Len(s) : (s[i] = ":") <=> (i = p[1] \/ i = p[2])
        /\ IsNumeral(SubSeq(s, 1, p[1] - 1))
        /\ IsNumeral(SubSeq(s, p[1] + 1, p[2] - 1))
        /\ IsNumeral(SubSeq(s, p[2] + 1, Len(s)))}
HMSSeconds(s, p) ==
    NumeralValue(SubSeq(s, 1, p[1] - 1)) * 3600
      + NumeralValue(SubSeq(s, p[1] + 1, p[2] - 1)) * 60
      + NumeralValue(SubSeq(s, p[2] + 1, Len(s)))
\* C7 (SpecMarket): for a response that is a list, the first record with a
\* boolean is_market_open decides: true gives 0; false gives
\* hours*3600 + minutes*60 + seconds of an H:M:S countdown ("1:30:15" gives
\* 5415); a list without such a record gives 0.
C7_FirstBooleanRecordDecides ==
    (pc = "returned" /\ arg.t = "body" /\ arg.json.t = "array") =>
        LET a == arg.json.a
        IN /\ Deciding(a) = {} => ret = Ok(0)
           /\ \A i \in Deciding(a) :
                LET r == a[i]
                IN /\ r.is_market_open.b => ret = Ok(0)
                   /\ (~r.is_market_open.b /\ r.time_to_open.t = "str") =>
                         \A p \in ColonPairs(r.time_to_open.s) :
                             ret = Ok(HMSSeconds(r.time_to_open.s, p))
           /\ a = <<ClosedRecord(Str_1_30_15)>> => ret = Ok(5415)
C7_Witness ==
    /\ pc = "returned"
    /\ arg = Body(JArray(<<JNum, ClosedRecord(Str_1_30_15), OpenRecord>>))
    /\ ret = Ok(5415)

PartOrZero(parts, i) ==
    IF i <= Len(parts) THEN unwrap_or_default(parse_u64(parts[i])) ELSE 0
PaddedWait(s) ==
    LET parts == split_colon(s)
    IN PartOrZero(parts, 1) * 3600 + PartOrZero(parts, 2) * 60 + PartOrZero(parts, 3)
\* C8 (SpecMarket): for a deciding closed record every countdown string gives
\* a wait: a part that is no non-negative integer, or that is missing because
\* the string has fewer than three parts, counts as 0.
C8_EveryCountdownGivesAWait ==
    (pc = "returned" /\ arg.t = "body" /\ arg.json.t = "array") =>
        \A i \in Deciding(arg.json.a) :
            LET r == arg.json.a[i]
            IN (~r.is_market_open.b /\ r.time_to_open.t = "str") =>
                  ret = Ok(PaddedWait(r.time_to_open.s))

\* C9 (Spec): a market-state query that fails in transport or whose body is
\* no JSON gives a wait of 0; the loop then goes, with no time spent in the
\* market sleep, to the ticker update check of the same cycle.
C9_MarketClockFailsOpen ==
    /\ []((pc = "market_sleep" /\ market_failed) => night_time = 0)
    /\ [][(pc = "market_sleep" /\ market_failed /\ pc' # pc)
            => (pc' = "check" /\ now' = now /\ cycles' = cycles)]_vars
C9_Witness ==
    pc = "fetch" /\ market_failed /\ night_time = 0 /\ cycles = 1

\* C10 (SpecRoundTrip): dump_to_file(t) followed by read_tickers() yields the
\* symbols of t in the order of t.
C10_RoundTrip ==
    pc = "returned" => ret = [t |-> "Ok", v |-> arg]
C10_Witness ==
    /\ pc = "returned"
    /\ Len(arg) = 2 /\ arg[1] = <<QUOTE>> /\ arg[2] = <<BACKSLASH>>
    /\ ret.v = arg

EmptyRecord == to_string(<<>>)
\* main has just left Tickers::init, and nobody else has touched the record
JustInitialised == pc = "market" /\ cycles = 0 /\ mods = 0
\* C11 (Spec), as claimed: Tickers::init creates an absent record with the
\* empty list and returns the empty set; a present record is loaded and left
\* unchanged, so that the record is written only when it was absent.
C11_InitWritesOnlyAnAbsentRecord ==
    JustInitialised =>
        IF init_log.present
        THEN init_log.kept /\ tickers = read_tickers(file).v
        ELSE file.exists /\ file.data = EmptyRecord /\ tickers = <<>>

\* C11 (Spec), amended: Tickers::init creates the record with the empty list
\* and returns the empty set when the record is absent or when try_exists
\* fails, which overwrites a present record; a record that try_exists reports
\* present is loaded and left unchanged.  After Tickers::init the program
\* never writes the record: only the environment changes it.
C11_InitWritesUnlessProbedPresent ==
    /\ [](JustInitialised =>
            IF init_log.probe = "Ok" /\ init_log.present
            THEN init_log.kept /\ tickers = read_tickers(file).v
            ELSE file.exists /\ file.data = EmptyRecord /\ tickers = <<>>)
    /\ [][(pc \in LoopPcs /\ file' # file) => mods' = mods + 1]_vars
C11_Witness ==
    /\ JustInitialised
    /\ init_log = [probe |-> "Err", present |-> TRUE, kept |-> FALSE]
    /\ file.data = EmptyRecord
    /\ tickers = <<>>

\* C12 (SpecPersist): a read_tickers() that runs concurrently with
\* dump_to_file sees the complete old record or the complete new record,
\* and loads the old set or the new set.
C12_ReaderSeesOldOrNew ==
    ret.t # "-" =>
        /\ ret.text \in {to_string(tickers), to_string(arg)}
        /\ ret.t = "Ok" /\ ret.v \in {tickers, arg}

\* the number of logged calls in the window of the last period seconds
CallsWithin(period) == Cardinality({i \in 1..Len(calls) : calls[i] + period > now})
\* C13 (SpecRate): with the tiers 8 per 60 s and 800 per 23400 s, at every
\* moment at most 8 quote calls lie in the last 60 seconds and at most 800 in
\* the last 23400 seconds.
C13_CallsStayWithinBothTiers ==
    /\ CallsWithin(PERIOD_IN_SECONDS1) <= RATE_LIMIT1
    /\ CallsWithin(PERIOD_IN_SECONDS2) <= RATE_LIMIT2
C13_Witness ==
    /\ pc = "call_sleep"
    /\ cycles = RATE_LIMIT2
    /\ Len(tickers) = 1
    /\ CallsWithin(PERIOD_IN_SECONDS1) = 2
    /\ CallsWithin(PERIOD_IN_SECONDS2) > RATE_LIMIT2 \div 2

\* C14 (Spec), as claimed: after a market sleep of a positive wait the loop
\* queries the market clock again before it checks for ticker updates or
\* fetches a symbol, so these steps are reached only from a report of wait 0.
C14_RequeriesAfterWaking ==
    pc \in {"check", "fetch", "call_sleep"} => night_time = 0

\* C14 (Spec), amended: on a wait > 0 the loop sleeps exactly that many
\* seconds and then goes on, in the same cycle and without another
\* market-state query, to the ticker update check.
C14_SleepsThenChecks ==
    [][(pc = "market_sleep" /\ night_time > 0 /\ pc' # pc)
          => (now' = now + night_time /\ pc' = "check" /\ cycles' = cycles
              /\ night_time' = night_time)]_vars
C14_Witness ==
    pc = "check" /\ night_time = 2 /\ now = 2 /\ cycles = 0 /\ slept

\* the delay of a cycle over the set t
CycleDelay(t) ==
    calculate_sleep_duration(Len(t), RATE_LIMIT1, PERIOD_IN_SECONDS1,
                             RATE_LIMIT2, PERIOD_IN_SECONDS2)
\* every entry of the active set is fetched once, one at a time and in
\* stored order, and every fetch, the last one of the cycle too, is followed
\* by a sleep of the cycle's delay before the loop goes on
EachEntryOnceInOrderThenSleep ==
    /\ [](/\ pc = "fetch" => (idx <= Len(tickers) /\ fetched = SubSeq(tickers, 1, idx - 1))
          /\ pc = "call_sleep" => (idx <= Len(tickers) /\ fetched = SubSeq(tickers, 1, idx))
          /\ (pc \in {"market", "market_sleep", "check"} /\ cycles > 0) => fetched = tickers)
    /\ [][(pc = "fetch" /\ pc' # pc)
            => (pc' = "call_sleep" /\ now' = now /\ fetched' = Append(fetched, tickers[idx]))]_vars
    /\ [][(pc = "call_sleep" /\ pc' # pc)
            => (/\ CycleDelay(tickers).some
                /\ now' = now + CycleDelay(tickers).v
                /\ pc' = IF idx < Len(tickers) THEN "fetch" ELSE "market")]_vars

\* C15 (Spec): when a cycle is over, the symbols fetched in it are those of
\* the active set in stored order, and every symbol was fetched exactly
\* once.
C15_EachSymbolFetchedOnce ==
    (pc \in {"market", "market_sleep", "check"} /\ cycles > 0) =>
        /\ fetched = tickers
        /\ \A i, j \in 1..Len(fetched) : fetched[i] = fetched[j] => i = j

\* the price field of a quote response, when it is a string
PriceString(resp) ==
    IF resp.t = "body" /\ resp.json.t = "object" /\ "price" \in DOMAIN resp.json
       /\ resp.json.price.t = "str"
    THEN Some(resp.json.price.s) ELSE None
\* a decimal numeral: an optional sign, digits, at most one "."
IsNumber(s) ==
    LET body == IF s # <<>> /\ s[1] \in {"+", "-"} THEN SubSeq(s, 2, Len(s)) ELSE s
    IN /\ \A i \in 1..Len(body) : body[i] \in DigitChars \cup {"."}
       /\ \E i \in 1..Len(body) : body[i] \in DigitChars
       /\ Cardinality({i \in 1..Len(body) : body[i] = "."}) <= 1
\* the failures the claim lists: transport error, non-JSON body, missing
\* price field, price string that is not a number
FailedFetch(resp) ==
    \/ resp.t = "transport_error"
    \/ resp.json.t = "unparsable"
    \/ resp.json.t # "object"
    \/ "price" \notin DOMAIN resp.json
    \/ resp.json.price.t = "absent"
    \/ (PriceString(resp).some /\ ~IsNumber(PriceString(resp).v))
\* C16 (SpecFetch): a fetch that fails leaves every gauge as it was and
\* returns to the caller; a fetch for symbol S whose price string is a number
\* sets the gauge of S to the parsed price and leaves every other gauge as
\* it was.
C16_OnlyANumberIsObserved ==
    pc = "returned" =>
        /\ ret.t \in {"Ok", "Err"}
        /\ FailedFetch(arg.resp) => gauge = arg.gauge
        /\ (PriceString(arg.resp).some /\ IsNumber(PriceString(arg.resp).v)) =>
              /\ DOMAIN gauge = DOMAIN arg.gauge \cup {arg.symbol}
              /\ gauge[arg.symbol] = parse_f64(PriceString(arg.resp).v).v
              /\ gauge[arg.symbol].t = "num"
              /\ \A x \in DOMAIN arg.gauge \ {arg.symbol} : gauge[x] = arg.gauge[x]

\* the active set changes only in the update check, the delay is the one
\* computed from that set's size, and neither changes while the symbols are
\* iterated, whatever happens to the record
ActiveSetFixedInCycle ==
    /\ [](pc \in {"fetch", "call_sleep"} => sleep_duration = CycleDelay(tickers))
    /\ [][(pc \in LoopPcs /\ tickers' # tickers) => pc = "check"]_vars
    /\ [][(pc \in LoopPcs /\ sleep_duration' # sleep_duration) => pc = "check"]_vars
    /\ [][(pc \in {"fetch", "call_sleep"} /\ file' # file)
            => (tickers' = tickers /\ sleep_duration' = sleep_duration
                /\ fetched' = fetched /\ idx' = idx)]_vars

\* C17 (Spec): a modification of the record made while the symbols are
\* iterated takes effect at the update check of the next cycle: that check
\* (if it returns) returns the reloaded set; stated for the modifications
\* that moved the record's modification time.
C17_ModificationInCycleTakesEffectAtNextCheck ==
    (check_log.iter /\ check_log.moved /\ check_log.ret # "panic") => check_log.ret = "Some"

\* C18 (Spec): after a market-state report of a countdown d > 0 taken at
\* time t, a quote call is issued at time t + d at the earliest.
C18_NoCallBeforeTheCountdownEnds ==
    /\ [](pc = "fetch" => now >= closed_until)
    /\ [](calls # <<>> => calls[Len(calls)] <= now)
    /\ [][(pc = "market" /\ pc' = "market_sleep")
            => closed_until' = now + night_time']_vars
    /\ [][calls' # calls => calls'[Len(calls')] >= closed_until]_vars
C18_Witness ==
    /\ pc = "call_sleep"
    /\ night_time = 2
    /\ closed_until = 2
    /\ calls = <<2>>

\* C19 (Spec): between two consecutive market-state queries a sleep of a
\* positive duration has ended, for every ticker set and market state.
C19_SleepsBetweenMarketQueries ==
    ~busy_wait

====
